---- MODULE Spec2Model ----
(***************************************************************************)
(* Model of app.py: the /uploadfile endpoint, the process-wide             *)
(* uploaded_data_store and the /ws relay loop (websocket_endpoint).        *)
(*                                                                         *)
(* Python strings are TLA+ strings.  Where the code's behaviour depends on *)
(* the dynamic type of a value (None or str, dict or int) the value is a   *)
(* tagged record [t |-> <type name>, v |-> <value>].                       *)
(***************************************************************************)
EXTENDS Integers, Sequences, FiniteSets, TLC

\* ------------------------------------------------------------------ bounds
MaxMsgs    == 2    \* frames the clients send over the whole run
MaxInbox   == 1    \* client frames in flight on one connection
MaxUploads == 2    \* upload requests over the whole run
MaxChunks  == 3    \* chunks the upstream yields over the whole run

Conns      == {"c1", "c2"}

\* ------------------------------------------------------------ Python values
PyNone     == [t |-> "NoneType"]
PyStr(s)   == [t |-> "str", v |-> s]
PyInt(n)   == [t |-> "int", v |-> n]
PyList(l)  == [t |-> "list", v |-> l]
PyDict(d)  == [t |-> "dict", v |-> d]

\* Python truth value of a tagged value (`if x:`, `not x`, `x or y`)
Truthy(x) ==
    CASE x.t = "NoneType" -> FALSE
      [] x.t = "str"      -> x.v # ""
      [] x.t = "int"      -> x.v # 0
      [] x.t = "list"     -> x.v # <<>>
      [] x.t = "dict"     -> DOMAIN x.v # {}

\* str.startswith
StartsWith(s, p) == Len(s) >= Len(p) /\ SubSeq(s, 1, Len(p)) = p

\* ------------------------------------------------------- program constants
SystemPrompt ==
    "If the user provides a blood test image or PDF, summarize the results and provide general, non-medical advice. Don't respond to anything not blood test related. Keep it short. Be helpful."
SystemMessage == [role |-> "system", content |-> PyStr(SystemPrompt)]
DefaultImagePrompt == "Analyze this image and respond to my prompt."
PdfFallback == "Could not extract text from the PDF file."
TextCap == 15000

\* ---------------------------------------------------------- file processor
B64Alphabet ==
    "ABCDEFGHIJKLMNOPQRSTUVWXYZabcdefghijklmnopqrstuvwxyz0123456789+/"
B64Char(i) == SubSeq(B64Alphabet, i + 1, i + 1)

\* base64.b64encode(file_bytes).decode('utf-8'); bytes are integers 0..255
RECURSIVE b64encode(_)
b64encode(bs) ==
    IF Len(bs) = 0 THEN ""
    ELSE IF Len(bs) = 1 THEN
        B64Char(bs[1] \div 4) \o B64Char((bs[1] % 4) * 16) \o "=="
    ELSE IF Len(bs) = 2 THEN
        B64Char(bs[1] \div 4)
        \o B64Char((bs[1] % 4) * 16 + bs[2] \div 16)
        \o B64Char((bs[2] % 16) * 4) \o "="
    ELSE
        B64Char(bs[1] \div 4)
        \o B64Char((bs[1] % 4) * 16 + bs[2] \div 16)
        \o B64Char((bs[2] % 16) * 4 + bs[3] \div 64)
        \o B64Char(bs[3] % 64)
        \o b64encode(SubSeq(bs, 4, Len(bs)))

image_to_base64(file_bytes, mime_type) ==
    "data:" \o mime_type \o ";base64," \o b64encode(file_bytes)

\* Prefix keeping one character more than asked: text[:n + 1].
Prefix_OneMore(text, n) ==
    SubSeq(text, 1, IF Len(text) < n + 1 THEN Len(text) ELSE n + 1)

\* text[:n]
Prefix(text, n) == SubSeq(text, 1, IF Len(text) < n THEN Len(text) ELSE n)

\* text += page.get_text() over the pages of the document, in page order
RECURSIVE ConcatPages(_)
ConcatPages(pages) ==
    IF pages = <<>> THEN ""
    ELSE Head(pages) \o ConcatPages(Tail(pages))

\* An uploaded file is [content_type, bytes, pdf]: pdf is what fitz.open
\* makes of the bytes, [ok |-> FALSE] when it raises and otherwise
\* [ok |-> TRUE, pages |-> <the text of each page>].
pdf_to_text(file) ==
    IF file.pdf.ok
    THEN Prefix(ConcatPages(file.pdf.pages), TextCap)
    ELSE PdfFallback

FilePng ==
    [content_type |-> "image/png", bytes |-> <<137, 80, 78, 71>>,
     pdf |-> [ok |-> FALSE]]
FilePdf ==
    [content_type |-> "application/pdf", bytes |-> <<37, 80, 68, 70>>,
     pdf |-> [ok |-> TRUE, pages |-> <<"Hb 13.5\n", "WBC 5.1\n">>]]
FileBadPdf ==
    [content_type |-> "application/pdf", bytes |-> <<0>>,
     pdf |-> [ok |-> FALSE]]
FileText ==
    [content_type |-> "text/plain", bytes |-> <<104, 105>>,
     pdf |-> [ok |-> FALSE]]
Files == {FilePng, FilePdf, FileBadPdf, FileText}

\* Documents whose extracted text passes the cap of line 34: 15001
\* characters, and five pages of 4000.
RECURSIVE Repeat(_, _)
Repeat(s, n) ==
    IF n = 0 THEN ""
    ELSE IF n % 2 = 0 THEN LET half == Repeat(s, n \div 2) IN half \o half
    ELSE s \o Repeat(s, n - 1)
PageOf(line, n) == Repeat(line, n)
FilePdfOver ==
    [content_type |-> "application/pdf", bytes |-> <<37, 80, 68, 70, 2>>,
     pdf |-> [ok |-> TRUE,
              pages |-> <<PageOf("1 Hb 13.5\n", 1000),
                          PageOf("2 WBC 5.1\n", 500), "3">>]]
FilePdfLong ==
    [content_type |-> "application/pdf", bytes |-> <<37, 80, 68, 70, 3>>,
     pdf |-> [ok |-> TRUE,
              pages |-> <<PageOf("1 Hb 13.5\n", 400),
                          PageOf("2 WBC 5.1\n", 400),
                          PageOf("3 RBC 4.7\n", 400),
                          PageOf("4 PLT 250\n", 400),
                          PageOf("5 MCV 90.\n", 400)>>]]
LongFiles == {FilePdfOver, FilePdfLong}

UploadSessionIds == {"s1", "s2"}

\* ------------------------------------------------------------------- store
\* uploaded_data_store is a dict: a function whose domain is its key set.
\* DictSet_KeepFirst is dict.setdefault, DictPopRest_Keep a pop that
\* removes nothing.
DictSet_KeepFirst(d, k, val) ==
    [x \in DOMAIN d \cup {k} |-> IF x \in DOMAIN d THEN d[x] ELSE val]
DictPopRest_Keep(d, k) == d
\* dict.pop(k, None) of a store that holds one slot for all sessions.
DictPopRest_Clear(d, k) == <<>>

DictSet(d, k, val) ==
    [x \in DOMAIN d \cup {k} |-> IF x = k THEN val ELSE d[x]]
\* dict.pop(k, None): the value returned and the dict left behind
DictPopValue(d, k) == IF k \in DOMAIN d THEN PyStr(d[k]) ELSE PyNone
DictPopRest(d, k)  == [x \in DOMAIN d \ {k} |-> d[x]]

\* ------------------------------------------------------------ client input
\* The text frames a client sends.  json.loads is a library function: it is
\* modelled by its result on each of these frames, [ok |-> FALSE] when it
\* raises json.JSONDecodeError.
RawUiText   == "{\"text\": \"What is Hb?\", \"file_info\": null, \"session_id\": \"s1\"}"
RawUiEmpty  == "{\"text\": \"\", \"file_info\": null, \"session_id\": \"s2\"}"
\* RawUiText with the session id of another session in its session_id field
RawUiForged == "{\"text\": \"What is Hb?\", \"file_info\": null, \"session_id\": \"s2\"}"
RawNoText   == "{\"session_id\": \"s1\"}"
RawNullText == "{\"text\": null}"
RawPlain    == "hello"
RawBlank    == ""
RawNumber   == "123"

RawInputs ==
    {RawUiText, RawUiEmpty, RawNoText, RawNullText, RawPlain, RawBlank,
     RawNumber}

json_loads(raw) ==
    CASE raw = RawUiText ->
           [ok |-> TRUE,
            value |-> PyDict([text |-> PyStr("What is Hb?"),
                              file_info |-> PyNone,
                              session_id |-> PyStr("s1")])]
      [] raw = RawUiForged ->
           [ok |-> TRUE,
            value |-> PyDict([text |-> PyStr("What is Hb?"),
                              file_info |-> PyNone,
                              session_id |-> PyStr("s2")])]
      [] raw = RawUiEmpty ->
           [ok |-> TRUE,
            value |-> PyDict([text |-> PyStr(""),
                              file_info |-> PyNone,
                              session_id |-> PyStr("s2")])]
      [] raw = RawNoText ->
           [ok |-> TRUE, value |-> PyDict([session_id |-> PyStr("s1")])]
      [] raw = RawNullText ->
           [ok |-> TRUE, value |-> PyDict([text |-> PyNone])]
      [] raw = RawNumber ->
           [ok |-> TRUE, value |-> PyInt(123)]
      [] OTHER -> [ok |-> FALSE]

\* dict.get(k, default)
DictGet(d, k, default) == IF k \in DOMAIN d THEN d[k] ELSE default

\* What the server's socket query string carries as session_id:
\* websocket.query_params.get("session_id") is None when it is missing.
QuerySessionIds == {PyNone, PyStr(""), PyStr("s1"), PyStr("s2")}

\* delta.content of one upstream chunk
ChunkContents == {PyNone, PyStr(""), PyStr("Hb is "), PyStr("fine.")}

NoException == [raised |-> FALSE]
Raise(type, msg) == [raised |-> TRUE, type |-> type, msg |-> msg]
UpstreamError == Raise("APIError", "Connection error.")
WebSocketDisconnect == Raise("WebSocketDisconnect", "")

\* ------------------------------------------------------------------- state
VARIABLES
    uploaded_data_store, \* the global dict: session id -> processed content
    store_log,           \* every upload response and every pop, in order
    pc,                  \* position of each connection's handler
    session_id,          \* the session_id local of each handler
    chat_history,        \* the chat_history local of each handler
    full_bot_response,   \* the full_bot_response local of each handler
    content,             \* the chunk content a handler is sending
    caught,              \* the exception that ended each handler's loop
    received,            \* the frames receive_text has returned, in order
    inbox,               \* client frames not yet received by the handler
    client_open,         \* the client has not disconnected
    nsent,               \* frames the clients have sent so far
    nchunks,             \* chunks the upstream has yielded so far
    sent,                \* text frames delivered to the client, in order
    requests,            \* messages= of every completions.create call
    emitted,             \* delta.content of the chunks of the current stream
    turn_base,           \* Len(chat_history) when the current turn began
    sent_base            \* Len(sent) when the current turn began

vars ==
    <<uploaded_data_store, store_log, pc, session_id, chat_history,
      full_bot_response, content, caught, received, inbox, client_open,
      nsent, nchunks, sent, requests, emitted, turn_base, sent_base>>

storeVars == <<uploaded_data_store, store_log>>
connVars  ==
    <<pc, session_id, chat_history, full_bot_response, content, caught,
      received, sent, requests, emitted, turn_base, sent_base>>
clientVars == <<inbox, client_open, nsent, nchunks>>

Init ==
    /\ uploaded_data_store = <<>>
    /\ store_log = <<>>
    /\ pc = [c \in Conns |-> "CONNECTING"]
    /\ session_id = [c \in Conns |-> PyNone]
    /\ chat_history = [c \in Conns |-> <<>>]
    /\ full_bot_response = [c \in Conns |-> ""]
    /\ content = [c \in Conns |-> PyNone]
    /\ caught = [c \in Conns |-> NoException]
    /\ received = [c \in Conns |-> <<>>]
    /\ inbox = [c \in Conns |-> <<>>]
    /\ client_open = [c \in Conns |-> TRUE]
    /\ nsent = 0
    /\ nchunks = 0
    /\ sent = [c \in Conns |-> <<>>]
    /\ requests = [c \in Conns |-> <<>>]
    /\ emitted = [c \in Conns |-> <<>>]
    /\ turn_base = [c \in Conns |-> 0]
    /\ sent_base = [c \in Conns |-> 0]

\* ------------------------------------------------------------- /uploadfile
\* The body of upload_file after `await file.read()`: no await follows, so
\* the handler is one step.  status 400 is the HTTPException.
ProcessUpload(file) ==
    IF StartsWith(file.content_type, "image/")
    THEN [status |-> 200,
          processed_content |->
              PyStr(image_to_base64(file.bytes, file.content_type))]
    ELSE IF file.content_type = "application/pdf"
    THEN [status |-> 200,
          processed_content |->
              PyStr("The user uploaded a PDF. The extracted text is as follows:\n---\n"
                    \o pdf_to_text(file) \o "\n---\n")]
    ELSE [status |-> 400, processed_content |-> PyNone]

\* StoreAfterUpload dropping the pending entry of a rejected upload.
StoreAfterUpload_ClearOnReject(store, sid, result) ==
    IF result.status = 200
    THEN DictSet(store, sid, result.processed_content.v)
    ELSE DictPopRest(store, sid)

StoreAfterUpload(store, sid, result) ==
    IF result.status = 200
    THEN DictSet(store, sid, result.processed_content.v)
    ELSE store

upload_file(file, sid) ==
    /\ Len(SelectSeq(store_log, LAMBDA e : e.op = "upload")) < MaxUploads
    /\ LET result == ProcessUpload(file)
       IN /\ uploaded_data_store' =
                 StoreAfterUpload(uploaded_data_store, sid, result)
          /\ store_log' =
                 Append(store_log,
                        [op |-> "upload", session_id |-> sid,
                         file_bytes |-> file.bytes,
                         content_type |-> file.content_type,
                         status |-> result.status,
                         value |-> result.processed_content])
    /\ UNCHANGED <<connVars, clientVars>>

\* ------------------------------------------------------------------ client
ClientSend(c, raw) ==
    /\ pc[c] \notin {"CONNECTING", "REFUSED", "ACCEPTING", "ABORTED", "CLOSED"}
    /\ client_open[c]
    /\ nsent < MaxMsgs
    /\ Len(inbox[c]) < MaxInbox
    /\ inbox' = [inbox EXCEPT ![c] = Append(@, raw)]
    /\ nsent' = nsent + 1
    /\ UNCHANGED <<storeVars, connVars, client_open, nchunks>>

ClientDisconnect(c) ==
    /\ pc[c] \notin {"CONNECTING", "REFUSED", "ABORTED", "CLOSED"}
    /\ client_open[c]
    /\ client_open' = [client_open EXCEPT ![c] = FALSE]
    /\ UNCHANGED <<storeVars, connVars, inbox, nsent, nchunks>>

\* Connect refusing only a missing session_id and accepting an empty one.
Connect_AcceptEmpty(c, q) ==
    /\ pc[c] = "CONNECTING"
    /\ session_id' = [session_id EXCEPT ![c] = q]
    /\ pc' = [pc EXCEPT ![c] = IF q = PyNone THEN "REFUSED" ELSE "ACCEPTING"]
    /\ UNCHANGED <<storeVars, clientVars, chat_history, full_bot_response,
                   content, caught, received, sent, requests, emitted,
                   turn_base, sent_base>>

\* --------------------------------------------------------------------- /ws
\* Lines 283-288: read session_id from the query; refuse the connection
\* when it is missing or empty (the handler returns after close), else
\* suspend in `await websocket.accept()`.
Connect(c, q) ==
    /\ pc[c] = "CONNECTING"
    /\ session_id' = [session_id EXCEPT ![c] = q]
    /\ pc' = [pc EXCEPT ![c] = IF ~Truthy(q) THEN "REFUSED" ELSE "ACCEPTING"]
    /\ UNCHANGED <<storeVars, clientVars, chat_history, full_bot_response,
                   content, caught, received, sent, requests, emitted,
                   turn_base, sent_base>>

\* Lines 288-295: accept() returns, the conversation is created and the
\* loop suspends in receive_text.
Accept(c) ==
    /\ pc[c] = "ACCEPTING"
    /\ chat_history' = [chat_history EXCEPT ![c] = <<SystemMessage>>]
    /\ pc' = [pc EXCEPT ![c] = "AWAITING_MESSAGE"]
    /\ UNCHANGED <<storeVars, clientVars, session_id, full_bot_response,
                   content, caught, received, sent, requests, emitted,
                   turn_base, sent_base>>

\* Line 288 raising, which it can once the client has left during the
\* handshake: accept() stands outside the try of line 292, so the exception
\* leaves the handler, which has created no conversation and caught
\* nothing.
AcceptRaise(c) ==
    /\ pc[c] = "ACCEPTING"
    /\ ~client_open[c]
    /\ pc' = [pc EXCEPT ![c] = "ABORTED"]
    /\ UNCHANGED <<storeVars, clientVars, session_id, chat_history,
                   full_bot_response, content, caught, received, sent,
                   requests, emitted, turn_base, sent_base>>

\* ParseAndTake reading the store with .get where the code uses .pop.
ParseAndTake_Peek(raw, store, sid) ==
    LET parsed == json_loads(raw)
    IN IF ~parsed.ok
       THEN [exc |-> NoException, user_message |-> PyStr(raw),
             file_content_data |-> PyNone, store |-> store, took |-> FALSE]
       ELSE IF parsed.value.t # "dict"
       THEN [exc |-> Raise("AttributeError",
                           "'" \o parsed.value.t
                               \o "' object has no attribute 'get'"),
             user_message |-> PyNone,
             file_content_data |-> PyNone, store |-> store, took |-> FALSE]
       ELSE [exc |-> NoException,
             user_message |-> DictGet(parsed.value.v, "text", PyStr("")),
             file_content_data |-> DictPopValue(store, sid),
             store |-> store, took |-> TRUE]

\* ParseAndTake keyed by the session_id field of the frame, when it has
\* one, instead of the connection's session id.
ParseAndTake_MessageKey(raw, store, sid) ==
    LET parsed == json_loads(raw)
    IN IF ~parsed.ok
       THEN [exc |-> NoException, user_message |-> PyStr(raw),
             file_content_data |-> PyNone, store |-> store, took |-> FALSE]
       ELSE IF parsed.value.t # "dict"
       THEN [exc |-> Raise("AttributeError",
                           "'" \o parsed.value.t
                               \o "' object has no attribute 'get'"),
             user_message |-> PyNone,
             file_content_data |-> PyNone, store |-> store, took |-> FALSE]
       ELSE LET key == DictGet(parsed.value.v, "session_id", PyStr(sid)).v
            IN [exc |-> NoException,
                user_message |-> DictGet(parsed.value.v, "text", PyStr("")),
                file_content_data |-> DictPopValue(store, key),
                store |-> DictPopRest(store, key), took |-> TRUE]

\* Lines 297-305: parse the frame and take the pending file content.
ParseAndTake(raw, store, sid) ==
    LET parsed == json_loads(raw)
    IN IF ~parsed.ok
       THEN [exc |-> NoException, user_message |-> PyStr(raw),
             file_content_data |-> PyNone, store |-> store, took |-> FALSE]
       ELSE IF parsed.value.t # "dict"
       THEN [exc |-> Raise("AttributeError",
                           "'" \o parsed.value.t
                               \o "' object has no attribute 'get'"),
             user_message |-> PyNone,
             file_content_data |-> PyNone, store |-> store, took |-> FALSE]
       ELSE [exc |-> NoException,
             user_message |-> DictGet(parsed.value.v, "text", PyStr("")),
             file_content_data |-> DictPopValue(store, sid),
             store |-> DictPopRest(store, sid), took |-> TRUE]

\* BuildMessageContent with the text-only branch taken unconditionally
\* (`else:` where the code has `elif user_message:`).
BuildMessageContent_AlwaysText(user_message, file_content_data) ==
    IF Truthy(file_content_data)
    THEN IF /\ file_content_data.t = "str"
            /\ StartsWith(file_content_data.v, "data:image/")
         THEN [exc |-> NoException,
               message_content |->
                   << [type |-> "text",
                       text |-> IF Truthy(user_message) THEN user_message
                                ELSE PyStr(DefaultImagePrompt)],
                      [type |-> "image_url",
                       image_url |-> [url |-> file_content_data.v]] >>]
         ELSE IF user_message.t # "str"
         THEN [exc |-> Raise("TypeError",
                             "can only concatenate str (not \""
                                 \o user_message.t \o "\") to str"),
               message_content |-> <<>>]
         ELSE [exc |-> NoException,
               message_content |->
                   << [type |-> "text",
                       text |-> PyStr(file_content_data.v
                                      \o "\n\nUser prompt: "
                                      \o user_message.v)] >>]
    ELSE [exc |-> NoException,
          message_content |-> << [type |-> "text", text |-> user_message] >>]

\* BuildMessageContent without the default instruction for an image sent
\* with no text.
BuildMessageContent_NoDefault(user_message, file_content_data) ==
    IF Truthy(file_content_data)
    THEN IF /\ file_content_data.t = "str"
            /\ StartsWith(file_content_data.v, "data:image/")
         THEN [exc |-> NoException,
               message_content |->
                   << [type |-> "text", text |-> user_message],
                      [type |-> "image_url",
                       image_url |-> [url |-> file_content_data.v]] >>]
         ELSE IF user_message.t # "str"
         THEN [exc |-> Raise("TypeError",
                             "can only concatenate str (not \""
                                 \o user_message.t \o "\") to str"),
               message_content |-> <<>>]
         ELSE [exc |-> NoException,
               message_content |->
                   << [type |-> "text",
                       text |-> PyStr(file_content_data.v
                                      \o "\n\nUser prompt: "
                                      \o user_message.v)] >>]
    ELSE IF Truthy(user_message)
    THEN [exc |-> NoException,
          message_content |-> << [type |-> "text", text |-> user_message] >>]
    ELSE [exc |-> NoException, message_content |-> <<>>]

\* Lines 309-327: the content of the user entry; <<>> when there is none.
BuildMessageContent(user_message, file_content_data) ==
    IF Truthy(file_content_data)
    THEN IF /\ file_content_data.t = "str"
            /\ StartsWith(file_content_data.v, "data:image/")
         THEN [exc |-> NoException,
               message_content |->
                   << [type |-> "text",
                       text |-> IF Truthy(user_message) THEN user_message
                                ELSE PyStr(DefaultImagePrompt)],
                      [type |-> "image_url",
                       image_url |-> [url |-> file_content_data.v]] >>]
         ELSE IF user_message.t # "str"
         THEN [exc |-> Raise("TypeError",
                             "can only concatenate str (not \""
                                 \o user_message.t \o "\") to str"),
               message_content |-> <<>>]
         ELSE [exc |-> NoException,
               message_content |->
                   << [type |-> "text",
                       text |-> PyStr(file_content_data.v
                                      \o "\n\nUser prompt: "
                                      \o user_message.v)] >>]
    ELSE IF Truthy(user_message)
    THEN [exc |-> NoException,
          message_content |-> << [type |-> "text", text |-> user_message] >>]
    ELSE [exc |-> NoException, message_content |-> <<>>]

\* SentAfterError of a handler that only logs the exception.
SentAfterError_Silent(c, exc) == sent

\* Lines 362-366: the send of the diagnostic.  It fails on a channel the
\* client has left, and that failure is swallowed by the bare except.
SentAfterError(c, exc) ==
    IF client_open[c]
    THEN [sent EXCEPT ![c] = Append(@, "ERROR: " \o exc.msg)]
    ELSE sent

\* AppendUser starting the history afresh on every turn.
AppendUser_Reset(history, message_content) ==
    <<SystemMessage, [role |-> "user", content |-> PyList(message_content)]>>

\* Line 333: chat_history.append({"role": "user", "content": message_content})
AppendUser(history, message_content) ==
    Append(history, [role |-> "user", content |-> PyList(message_content)])

\* CommitResponse appending the response even when it is empty.
CommitResponse_Always(history, response) ==
    Append(history, [role |-> "assistant", content |-> PyStr(response)])

\* CommitResponse overwriting the last entry instead of appending.
CommitResponse_ReplaceLast(history, response) ==
    IF response # ""
    THEN [history EXCEPT ![Len(history)] =
              [role |-> "assistant", content |-> PyStr(response)]]
    ELSE history

\* Lines 355-356: commit the accumulated response when it is not empty.
CommitResponse(history, response) ==
    IF response # ""
    THEN Append(history, [role |-> "assistant", content |-> PyStr(response)])
    ELSE history

\* RequestMessages sending only the newest entry.
RequestMessages_LastOnly(history) == <<history[Len(history)]>>

\* Line 338: messages=chat_history.
RequestMessages(history) == history

\* Lines 360-363: `except Exception` catches the exception and the handler
\* suspends in the send of the diagnostic.
ErrorExit(c, exc) ==
    /\ pc' = [pc EXCEPT ![c] = "REPORTING"]
    /\ caught' = [caught EXCEPT ![c] = exc]
    /\ UNCHANGED sent

\* Lines 363-366: the send of the diagnostic completes or fails, then the
\* handler closes the socket and ends.
ReportError(c) ==
    /\ pc[c] = "REPORTING"
    /\ sent' = SentAfterError(c, caught[c])
    /\ pc' = [pc EXCEPT ![c] = "CLOSED"]
    /\ UNCHANGED <<storeVars, clientVars, session_id, chat_history,
                   full_bot_response, content, caught, received, requests,
                   emitted, turn_base, sent_base>>

\* AtReceive of a handler that reads the next frame while the response is
\* still streaming.
AtReceive_WhileStreaming(c) ==
    pc[c] \in {"AWAITING_MESSAGE", "STREAMING_RESPONSE"}

\* Lines 293-295: receive_text is awaited only at the top of the loop,
\* after the previous pass has run to its end.
AtReceive(c) == pc[c] = "AWAITING_MESSAGE"

\* Lines 295-341, one pass of the loop from receive_text to the call of
\* completions.create: there is no await between them.
ReceiveMessage(c) ==
    /\ AtReceive(c)
    /\ inbox[c] # <<>>
    /\ LET raw == Head(inbox[c])
           sid == session_id[c].v
           pt  == ParseAndTake(raw, uploaded_data_store, sid)
           bm  == BuildMessageContent(pt.user_message, pt.file_content_data)
       IN /\ inbox' = [inbox EXCEPT ![c] = Tail(@)]
          /\ received' = [received EXCEPT ![c] = Append(@, raw)]
          /\ uploaded_data_store' = pt.store
          /\ store_log' =
                 IF pt.took
                 THEN Append(store_log,
                             [op |-> "pop", conn |-> c, session_id |-> sid,
                              value |-> pt.file_content_data])
                 ELSE store_log
          /\ IF pt.exc.raised
             THEN /\ ErrorExit(c, pt.exc)
                  /\ UNCHANGED <<chat_history, requests, turn_base, sent_base>>
             ELSE IF bm.exc.raised
             THEN /\ ErrorExit(c, bm.exc)
                  /\ UNCHANGED <<chat_history, requests, turn_base, sent_base>>
             ELSE IF bm.message_content = <<>>
             THEN UNCHANGED <<pc, sent, caught, chat_history, requests,
                              turn_base, sent_base>>
             ELSE /\ chat_history' =
                         [chat_history EXCEPT ![c] =
                             AppendUser(@, bm.message_content)]
                  /\ requests' =
                         [requests EXCEPT ![c] =
                             Append(@, RequestMessages(chat_history'[c]))]
                  /\ turn_base' = [turn_base EXCEPT ![c] = Len(chat_history[c])]
                  /\ sent_base' = [sent_base EXCEPT ![c] = Len(sent[c])]
                  /\ pc' = [pc EXCEPT ![c] = "REQUESTING"]
                  /\ UNCHANGED <<sent, caught>>
    /\ UNCHANGED <<session_id, full_bot_response, content, client_open, nsent,
                   nchunks, emitted>>

\* Line 295 raising WebSocketDisconnect, lines 358-359.
ReceiveDisconnect(c) ==
    /\ pc[c] = "AWAITING_MESSAGE"
    /\ inbox[c] = <<>>
    /\ ~client_open[c]
    /\ pc' = [pc EXCEPT ![c] = "CLOSED"]
    /\ caught' = [caught EXCEPT ![c] = WebSocketDisconnect]
    /\ UNCHANGED <<storeVars, clientVars, session_id, chat_history,
                   full_bot_response, content, received, sent, requests,
                   emitted, turn_base, sent_base>>

\* Lines 336-344: completions.create returns the stream.
UpstreamAccept(c) ==
    /\ pc[c] = "REQUESTING"
    /\ pc' = [pc EXCEPT ![c] = "STREAMING_RESPONSE"]
    /\ full_bot_response' = [full_bot_response EXCEPT ![c] = ""]
    /\ emitted' = [emitted EXCEPT ![c] = <<>>]
    /\ UNCHANGED <<storeVars, clientVars, session_id, chat_history, content,
                   caught, received, sent, requests, turn_base, sent_base>>

\* Line 336 raising.
UpstreamReject(c) ==
    /\ pc[c] = "REQUESTING"
    /\ ErrorExit(c, UpstreamError)
    /\ UNCHANGED <<storeVars, clientVars, session_id, chat_history,
                   full_bot_response, content, received, requests, emitted,
                   turn_base, sent_base>>

\* Lines 347-350: the stream yields a chunk.
NextChunk(c, ch) ==
    /\ pc[c] = "STREAMING_RESPONSE"
    /\ nchunks < MaxChunks
    /\ nchunks' = nchunks + 1
    /\ emitted' = [emitted EXCEPT ![c] = Append(@, ch)]
    /\ content' = [content EXCEPT ![c] = ch]
    /\ pc' = [pc EXCEPT ![c] = IF Truthy(ch) THEN "SENDING" ELSE @]
    /\ UNCHANGED <<storeVars, inbox, client_open, nsent, session_id,
                   chat_history, full_bot_response, caught, received, sent,
                   requests, turn_base, sent_base>>

\* SendChunk sending the text accumulated so far instead of the fragment.
SendChunk_Cumulative(c) ==
    /\ pc[c] = "SENDING"
    /\ IF client_open[c]
       THEN /\ sent' = [sent EXCEPT ![c] =
                            Append(@, full_bot_response[c] \o content[c].v)]
            /\ full_bot_response' =
                   [full_bot_response EXCEPT ![c] = @ \o content[c].v]
            /\ pc' = [pc EXCEPT ![c] = "STREAMING_RESPONSE"]
            /\ UNCHANGED caught
       ELSE /\ pc' = [pc EXCEPT ![c] = "CLOSED"]
            /\ caught' = [caught EXCEPT ![c] = WebSocketDisconnect]
            /\ UNCHANGED <<sent, full_bot_response>>
    /\ UNCHANGED <<storeVars, clientVars, session_id, chat_history, content,
                   received, requests, emitted, turn_base, sent_base>>

\* SendChunk treating a send to a departed client as a generic failure.
SendChunk_DisconnectAsError(c) ==
    /\ pc[c] = "SENDING"
    /\ IF client_open[c]
       THEN /\ sent' = [sent EXCEPT ![c] = Append(@, content[c].v)]
            /\ full_bot_response' =
                   [full_bot_response EXCEPT ![c] = @ \o content[c].v]
            /\ pc' = [pc EXCEPT ![c] = "STREAMING_RESPONSE"]
            /\ UNCHANGED caught
       ELSE /\ pc' = [pc EXCEPT ![c] = "CLOSED"]
            /\ caught' = [caught EXCEPT ![c] =
                             Raise("RuntimeError", "send failed")]
            /\ UNCHANGED <<sent, full_bot_response>>
    /\ UNCHANGED <<storeVars, clientVars, session_id, chat_history, content,
                   received, requests, emitted, turn_base, sent_base>>

\* Lines 351-352; send_text raises WebSocketDisconnect once the client left.
SendChunk(c) ==
    /\ pc[c] = "SENDING"
    /\ IF client_open[c]
       THEN /\ sent' = [sent EXCEPT ![c] = Append(@, content[c].v)]
            /\ full_bot_response' =
                   [full_bot_response EXCEPT ![c] = @ \o content[c].v]
            /\ pc' = [pc EXCEPT ![c] = "STREAMING_RESPONSE"]
            /\ UNCHANGED caught
       ELSE /\ pc' = [pc EXCEPT ![c] = "CLOSED"]
            /\ caught' = [caught EXCEPT ![c] = WebSocketDisconnect]
            /\ UNCHANGED <<sent, full_bot_response>>
    /\ UNCHANGED <<storeVars, clientVars, session_id, chat_history, content,
                   received, requests, emitted, turn_base, sent_base>>

\* Lines 347, 355-356: the stream is exhausted.
StreamEnd(c) ==
    /\ pc[c] = "STREAMING_RESPONSE"
    /\ chat_history' =
           [chat_history EXCEPT ![c] =
               CommitResponse(@, full_bot_response[c])]
    /\ pc' = [pc EXCEPT ![c] = "AWAITING_MESSAGE"]
    /\ UNCHANGED <<storeVars, clientVars, session_id, full_bot_response,
                   content, caught, received, sent, requests, emitted,
                   turn_base, sent_base>>

\* Line 347 raising: the stream fails.
StreamError(c) ==
    /\ pc[c] = "STREAMING_RESPONSE"
    /\ ErrorExit(c, UpstreamError)
    /\ UNCHANGED <<storeVars, clientVars, session_id, chat_history,
                   full_bot_response, content, received, requests, emitted,
                   turn_base, sent_base>>

\* The next-state relation over the connections CS and the inputs the
\* environment draws: query session ids QS, client frames RS, chunk contents
\* KS, uploaded files FS and upload session ids US.
NextOver(CS, QS, RS, KS, FS, US) ==
    \/ \E f \in FS, sid \in US : upload_file(f, sid)
    \/ \E c \in CS, q \in QS : Connect(c, q)
    \/ \E c \in CS : Accept(c)
    \/ \E c \in CS : AcceptRaise(c)
    \/ \E c \in CS, raw \in RS : ClientSend(c, raw)
    \/ \E c \in CS : ClientDisconnect(c)
    \/ \E c \in CS : ReceiveMessage(c)
    \/ \E c \in CS : ReceiveDisconnect(c)
    \/ \E c \in CS : UpstreamAccept(c)
    \/ \E c \in CS : UpstreamReject(c)
    \/ \E c \in CS, ch \in KS : NextChunk(c, ch)
    \/ \E c \in CS : SendChunk(c)
    \/ \E c \in CS : StreamEnd(c)
    \/ \E c \in CS : StreamError(c)
    \/ \E c \in CS : ReportError(c)

\* Every connection and every input.
Next ==
    NextOver(Conns, QuerySessionIds, RawInputs, ChunkContents, Files,
             UploadSessionIds)
Spec == Init /\ [][Next]_vars

\* The specifications below keep every action and narrow the inputs to
\* those the properties checked under them are about.

\* One connection, every kind of client frame.
NextParse ==
    NextOver({"c1"}, {PyStr("s1")}, RawInputs, {PyStr("fine.")},
             {FilePdf}, {"s1"})
SpecParse == Init /\ [][NextParse]_vars

\* One connection, every kind of chunk.
NextStream ==
    NextOver({"c1"}, {PyStr("s1")}, {RawUiText}, ChunkContents,
             {FilePng}, {"s1"})
SpecStream == Init /\ [][NextStream]_vars

\* One connection, supported uploads under either session id.
NextStore ==
    NextOver({"c1"}, {PyStr("s1")}, {RawUiText},
             {PyStr("fine.")}, {FilePng, FilePdf}, UploadSessionIds)
SpecStore == Init /\ [][NextStore]_vars

\* One connection, supported and unsupported uploads under either session
\* id.
NextReject ==
    NextOver({"c1"}, {PyStr("s1")}, {RawUiText},
             {PyStr("fine.")}, {FilePng, FileText}, UploadSessionIds)
SpecReject == Init /\ [][NextReject]_vars

\* Two connections opened with a missing, an empty or a valid session id.
NextConnect ==
    NextOver(Conns, {PyNone, PyStr(""), PyStr("s1")}, {RawUiText},
             {PyStr("fine.")}, {FilePng}, {"s1"})
SpecConnect == Init /\ [][NextConnect]_vars

\* One connection, documents longer than the extraction cap.
NextLongPdf ==
    NextOver({"c1"}, {PyStr("s1")}, {RawUiText}, {PyStr("fine.")},
             LongFiles, {"s1"})
SpecLongPdf == Init /\ [][NextLongPdf]_vars

\* One connection, frames with text, with empty text, with null text and
\* not in JSON, image and document uploads.
NextContent ==
    NextOver({"c1"}, {PyStr("s1")},
             {RawUiText, RawUiEmpty, RawNullText, RawPlain},
             {PyStr("fine.")}, {FilePng, FilePdf}, {"s1"})
SpecContent == Init /\ [][NextContent]_vars

\* Two connections opened under one session id, image uploads under it.
NextShared ==
    NextOver(Conns, {PyStr("s1")}, {RawUiText}, {PyStr("fine.")},
             {FilePng}, {"s1"})
SpecShared == Init /\ [][NextShared]_vars

\* One connection under s1 whose frames name s1 or s2 in their session_id
\* field, image uploads under s1, and document uploads under s2, a session
\* with no connection of its own.
NextForge ==
    \/ NextOver({"c1"}, {PyStr("s1")}, {RawUiText, RawUiForged},
                {PyStr("fine.")}, {FilePng}, {"s1"})
    \/ upload_file(FilePdf, "s2")
SpecForge == Init /\ [][NextForge]_vars

\* Two connections of different sessions: c1 under s1, which uploads
\* images, and c2 under s2, which uploads documents.
NextPair ==
    \/ NextOver({"c1"}, {PyStr("s1")}, {RawUiText}, {PyStr("fine.")},
                {FilePng}, {"s1"})
    \/ NextOver({"c2"}, {PyStr("s2")}, {RawUiText}, {PyStr("fine.")},
                {FilePdf}, {"s2"})
SpecPair == Init /\ [][NextPair]_vars

\* ================================================================== claims
Last(seq) == seq[Len(seq)]

\* The step is a pass of connection c's loop that received a frame.
ReceiveStep(c) == Len(received'[c]) = Len(received[c]) + 1

\* The frame is JSON text whose value is an object.
IsJsonObject(raw) == json_loads(raw).ok /\ json_loads(raw).value.t = "dict"

\* The text the frame carries is empty: an object whose text field is
\* missing, empty or null, or the empty frame.
CarriesNoText(raw) ==
    IF json_loads(raw).ok
    THEN /\ json_loads(raw).value.t = "dict"
         /\ ~Truthy(DictGet(json_loads(raw).value.v, "text", PyStr("")))
    ELSE raw = ""

\* C1 as stated: whatever frame the loop processes, the store holds no entry
\* for the connection's session id afterwards.
C1_AnyFrameConsumes ==
    [][\A c \in Conns :
          ReceiveStep(c) => session_id[c].v \notin DOMAIN uploaded_data_store'
      ]_vars

\* C1 amended: a processed frame that is a JSON object removes the entry of
\* the connection's session id and nothing else; any other frame (not JSON,
\* or JSON that is not an object) leaves the store as it was.
C1_JsonObjectConsumes ==
    [][\A c \in Conns :
          ReceiveStep(c) =>
              IF IsJsonObject(Head(inbox[c]))
              THEN /\ session_id[c].v \notin DOMAIN uploaded_data_store'
                   /\ uploaded_data_store' =
                          [k \in DOMAIN uploaded_data_store \ {session_id[c].v}
                              |-> uploaded_data_store[k]]
              ELSE uploaded_data_store' = uploaded_data_store
      ]_vars

\* A JSON-object frame has just consumed a pending payload.
C1_Witness ==
    \E c \in Conns :
        /\ received[c] # <<>>
        /\ IsJsonObject(Last(received[c]))
        /\ store_log # <<>>
        /\ Last(store_log).op = "pop"
        /\ Last(store_log).conn = c
        /\ Last(store_log).value.t = "str"
        /\ session_id[c].v \notin DOMAIN uploaded_data_store

\* C2: a frame that is not a JSON object never ends the loop: nothing is
\* sent, the connection stays open and the raw frame becomes the text of a
\* text-only user entry (no entry when the frame is empty).
C2_MalformedFrameDegrades ==
    [][\A c \in Conns :
          (ReceiveStep(c) /\ ~IsJsonObject(Head(inbox[c]))) =>
              /\ pc'[c] \notin {"REPORTING", "CLOSED"}
              /\ caught'[c] = NoException
              /\ sent'[c] = sent[c]
              /\ chat_history'[c] =
                     IF Head(inbox[c]) = ""
                     THEN chat_history[c]
                     ELSE Append(chat_history[c],
                                 [role |-> "user",
                                  content |->
                                      PyList(<< [type |-> "text",
                                                 text |-> PyStr(Head(inbox[c]))] >>)])
      ]_vars

\* C3: a frame with no text, received while the store has no entry for the
\* session, changes neither the conversation, the store, the client channel
\* nor the upstream requests, and the loop awaits the next message.
C3_EmptyTurnIsNoOp ==
    [][\A c \in Conns :
          (/\ ReceiveStep(c)
           /\ CarriesNoText(Head(inbox[c]))
           /\ session_id[c].v \notin DOMAIN uploaded_data_store) =>
              /\ chat_history' = chat_history
              /\ uploaded_data_store' = uploaded_data_store
              /\ sent' = sent
              /\ requests' = requests
              /\ pc'[c] = "AWAITING_MESSAGE"
              /\ caught' = caught
      ]_vars

\* An empty turn has been processed after a complete earlier turn.
C3_Witness ==
    \E c \in Conns :
        /\ Len(received[c]) = 2
        /\ ~CarriesNoText(received[c][1])
        /\ CarriesNoText(received[c][2])
        /\ pc[c] = "AWAITING_MESSAGE"
        /\ Len(requests[c]) = 1
        /\ Len(store_log) >= 2
        /\ Last(store_log).op = "pop"
        /\ Last(store_log).value = PyNone

\* The non-empty contents of a stream's chunks, in order.
RECURSIVE Fragments(_)
Fragments(chunks) ==
    IF chunks = <<>> THEN <<>>
    ELSE IF Truthy(Head(chunks))
         THEN <<Head(chunks).v>> \o Fragments(Tail(chunks))
         ELSE Fragments(Tail(chunks))

RECURSIVE Joined(_)
Joined(texts) ==
    IF texts = <<>> THEN "" ELSE Head(texts) \o Joined(Tail(texts))

\* The frames sent to the client since the current turn began.
TurnSent(c) == SubSeq(sent[c], sent_base[c] + 1, Len(sent[c]))

\* C4: during and after a turn the frames sent to the client in that turn
\* are the non-empty fragments the upstream has yielded, one frame per
\* fragment and in the same order; a fragment is outstanding only while it
\* is being sent, so the next chunk is requested only after the send; the
\* accumulated response is the concatenation of the frames sent.
C4_FragmentsRelayedInOrder ==
    \A c \in Conns :
        pc[c] \in {"AWAITING_MESSAGE", "STREAMING_RESPONSE", "SENDING"} =>
            /\ Fragments(emitted[c]) =
                   IF pc[c] = "SENDING"
                   THEN Append(TurnSent(c), content[c].v)
                   ELSE TurnSent(c)
            /\ pc[c] # "AWAITING_MESSAGE" =>
                   full_bot_response[c] = Joined(TurnSent(c))

\* A turn has completed whose stream held two different fragments and a
\* chunk without content.
C4_Witness ==
    \E c \in Conns :
        /\ pc[c] = "AWAITING_MESSAGE"
        /\ Len(emitted[c]) = 3
        /\ Len(TurnSent(c)) = 2
        /\ TurnSent(c)[1] # TurnSent(c)[2]
        /\ Last(chat_history[c]).role = "assistant"

\* C5: when a stream ends with a non-empty accumulated response, the
\* conversation is the conversation sent upstream for the turn (the one
\* before the turn plus one user entry) followed by one assistant entry
\* holding the accumulated response: two entries more than before the turn.
C5_TurnAddsTwoEntries ==
    [][\A c \in Conns :
          (/\ pc[c] = "STREAMING_RESPONSE"
           /\ pc'[c] = "AWAITING_MESSAGE"
           /\ full_bot_response[c] # "") =>
              /\ Len(chat_history'[c]) = turn_base[c] + 2
              /\ Len(Last(requests[c])) = turn_base[c] + 1
              /\ chat_history'[c][turn_base[c] + 1].role = "user"
              /\ chat_history'[c] =
                     Append(Last(requests[c]),
                            [role |-> "assistant",
                             content |-> PyStr(full_bot_response[c])])
      ]_vars

\* The second turn of a connection has completed with a response.
C5_Witness ==
    \E c \in Conns :
        /\ pc[c] = "AWAITING_MESSAGE"
        /\ turn_base[c] = 3
        /\ Len(chat_history[c]) = 5
        /\ chat_history[c][4].role = "user"
        /\ chat_history[c][5].role = "assistant"

\* ------------------------------------------------------------ store claims
IsPut(e, sid)  == e.op = "upload" /\ e.status = 200 /\ e.session_id = sid
IsTake(e, sid) == e.op = "pop" /\ e.session_id = sid
\* No put or take of sid lies strictly between positions i and j of the log.
Adjacent(i, j, sid) ==
    \A k \in (i + 1)..(j - 1) :
        ~IsPut(store_log[k], sid) /\ ~IsTake(store_log[k], sid)

\* C6: a take that directly follows a put of the same session id returns
\* the payload put, and a take that directly follows a take returns absent.
C6_TakeAfterPut ==
    \A i, j \in 1..Len(store_log) :
        LET sid == store_log[j].session_id
        IN (i < j /\ IsTake(store_log[j], sid) /\ Adjacent(i, j, sid)) =>
               /\ IsPut(store_log[i], sid) =>
                      store_log[j].value = store_log[i].value
               /\ IsTake(store_log[i], sid) => store_log[j].value = PyNone

\* A put, a take that returned its payload and a second take that returned
\* absent, all of one session id and with nothing in between.
C6_Witness ==
    \E i \in 1..Len(store_log) :
        /\ i + 2 <= Len(store_log)
        /\ IsPut(store_log[i], store_log[i].session_id)
        /\ IsTake(store_log[i + 1], store_log[i].session_id)
        /\ store_log[i + 1].value = store_log[i].value
        /\ IsTake(store_log[i + 2], store_log[i].session_id)
        /\ store_log[i + 2].value = PyNone

\* C7: an upload whose content type is neither image/... nor
\* application/pdf is answered with status 400 and leaves the store as it
\* was.
C7_UnsupportedUploadRejected ==
    [][(/\ Len(store_log') = Len(store_log) + 1
        /\ Last(store_log').op = "upload"
        /\ ~StartsWith(Last(store_log').content_type, "image/")
        /\ Last(store_log').content_type # "application/pdf") =>
           /\ Last(store_log').status = 400
           /\ uploaded_data_store' = uploaded_data_store
      ]_vars

\* An unsupported upload has been rejected while an earlier payload of the
\* same session id was pending, and the payload is still there.
C7_Witness ==
    /\ store_log # <<>>
    /\ Last(store_log).op = "upload"
    /\ Last(store_log).status = 400
    /\ Last(store_log).session_id \in DOMAIN uploaded_data_store

\* The positions of the puts and takes of sid in the log.
StoreOps(sid) ==
    {i \in 1..Len(store_log) :
        IsPut(store_log[i], sid) \/ IsTake(store_log[i], sid)}
MaxOf(S) == CHOOSE m \in S : \A x \in S : x <= m

\* C8: the store holds for a session id exactly the payload of its most
\* recent upload, if that has not been taken since, and nothing otherwise;
\* a take that follows two uploads of its session id returns the second.
C8_LatestUploadWins ==
    /\ \A sid \in UploadSessionIds :
           IF StoreOps(sid) = {} \/ store_log[MaxOf(StoreOps(sid))].op = "pop"
           THEN sid \notin DOMAIN uploaded_data_store
           ELSE /\ sid \in DOMAIN uploaded_data_store
                /\ PyStr(uploaded_data_store[sid]) =
                       store_log[MaxOf(StoreOps(sid))].value
    /\ DOMAIN uploaded_data_store \subseteq UploadSessionIds
    /\ \A i, j, k \in 1..Len(store_log) :
           LET sid == store_log[k].session_id
           IN (/\ i < j /\ j < k
               /\ IsPut(store_log[i], sid) /\ IsPut(store_log[j], sid)
               /\ IsTake(store_log[k], sid)
               /\ Adjacent(i, j, sid) /\ Adjacent(j, k, sid)) =>
                  store_log[k].value = store_log[j].value

\* Two uploads with different payloads for one session id, then a take
\* that returned the second payload.
C8_Witness ==
    \E i \in 1..Len(store_log) :
        /\ i + 2 <= Len(store_log)
        /\ IsPut(store_log[i], store_log[i].session_id)
        /\ IsPut(store_log[i + 1], store_log[i].session_id)
        /\ store_log[i + 1].value # store_log[i].value
        /\ IsTake(store_log[i + 2], store_log[i].session_id)
        /\ store_log[i + 2].value = store_log[i + 1].value

\* ----------------------------------------------------- conversation claims
\* C9: the conversation of an accepted connection starts with the system
\* message and holds no other system entry, and every step leaves it
\* unchanged or appends one entry to it.
C9_SystemFirstGrowOnly ==
    /\ [](\A c \in Conns :
             pc[c] \notin {"CONNECTING", "REFUSED", "ACCEPTING", "ABORTED"} =>
                 /\ Len(chat_history[c]) >= 1
                 /\ chat_history[c][1] = SystemMessage
                 /\ \A i \in 2..Len(chat_history[c]) :
                        chat_history[c][i].role # "system")
    /\ [][\A c \in Conns :
             \/ chat_history'[c] = chat_history[c]
             \/ /\ Len(chat_history'[c]) = Len(chat_history[c]) + 1
                /\ SubSeq(chat_history'[c], 1, Len(chat_history[c]))
                       = chat_history[c]
         ]_vars

\* Two complete turns have been committed on a connection.
C9_Witness ==
    \E c \in Conns :
        /\ Len(chat_history[c]) = 5
        /\ chat_history[c][1] = SystemMessage
        /\ chat_history[c][3].role = "assistant"
        /\ chat_history[c][5].role = "assistant"

\* ------------------------------------------------------------ error claims
\* The takes connection c has made.
TakesBy(c) == SelectSeq(store_log, LAMBDA e : e.op = "pop" /\ e.conn = c)
IsError(exc) == exc.raised /\ exc.type # "WebSocketDisconnect"
Diagnostics(c) == SelectSeq(sent[c], LAMBDA m : StartsWith(m, "ERROR: "))

\* C10 as stated: once an exception other than a disconnect has ended the
\* loop, the client has been sent exactly one diagnostic, as the last
\* frame, and the connection is closed.
C10_OneDiagnosticAlways ==
    \A c \in Conns :
        (IsError(caught[c]) /\ pc[c] # "REPORTING") =>
            /\ pc[c] = "CLOSED"
            /\ Len(Diagnostics(c)) = 1
            /\ Last(sent[c]) = "ERROR: " \o caught[c].msg

\* C10 amended: an exception other than a disconnect ends the loop: the
\* step that raises it sends nothing and makes no upstream request, and the
\* handler then makes one attempt to send the diagnostic, which reaches the
\* client as one last frame if the client is still there when it is sent
\* and is dropped if the client has left by then; after it the connection is
\* closed.  From the exception on the connection receives nothing, requests
\* nothing, takes nothing and changes no conversation, and a closed
\* connection never leaves CLOSED.
C10_ErrorReportedOnceThenClosed ==
    /\ [](\A c \in Conns :
             IsError(caught[c]) =>
                 /\ pc[c] \in {"REPORTING", "CLOSED"}
                 /\ Len(Diagnostics(c)) <= 1
                 /\ pc[c] = "REPORTING" => Diagnostics(c) = <<>>
                 /\ Diagnostics(c) # <<>> =>
                        Last(sent[c]) = "ERROR: " \o caught[c].msg)
    /\ [][\A c \in Conns :
             /\ (~IsError(caught[c]) /\ IsError(caught'[c])) =>
                    /\ requests'[c] = requests[c]
                    /\ sent'[c] = sent[c]
                    /\ pc'[c] = "REPORTING"
             /\ (pc[c] = "REPORTING" /\ pc'[c] # "REPORTING") =>
                    /\ pc'[c] = "CLOSED"
                    /\ sent'[c] =
                           IF client_open[c]
                           THEN Append(sent[c], "ERROR: " \o caught[c].msg)
                           ELSE sent[c]
             /\ pc[c] = "REPORTING" =>
                    /\ requests'[c] = requests[c]
                    /\ received'[c] = received[c]
                    /\ chat_history'[c] = chat_history[c]
                    /\ caught'[c] = caught[c]
                    /\ TakesBy(c)' = TakesBy(c)
             /\ pc[c] = "CLOSED" =>
                    /\ pc'[c] = "CLOSED"
                    /\ sent'[c] = sent[c]
                    /\ requests'[c] = requests[c]
                    /\ received'[c] = received[c]
                    /\ chat_history'[c] = chat_history[c]
                    /\ caught'[c] = caught[c]
         ]_vars

\* A stream has failed after a fragment was relayed, and the client got the
\* diagnostic after the fragment.
C10_Witness ==
    \E c \in Conns :
        /\ IsError(caught[c])
        /\ caught[c].type = "APIError"
        /\ pc[c] = "CLOSED"
        /\ Len(sent[c]) = 2
        /\ Last(sent[c]) = "ERROR: Connection error."

\* ---------------------------------------------------------------------------
\* C11: a client disconnect detected while waiting for a message or while
\* sending a fragment closes the connection as normal termination: the
\* handler catches WebSocketDisconnect, sends no diagnostic, and the closed
\* connection never again sends, requests upstream or takes from the store.
DisconnectDetected(c) ==
    /\ ~client_open[c]
    /\ pc'[c] # pc[c]
    /\ \/ pc[c] = "SENDING"
       \/ pc[c] = "AWAITING_MESSAGE" /\ inbox[c] = <<>>

ClosedByDisconnect(c) == pc[c] = "CLOSED" /\ caught[c] = WebSocketDisconnect

C11_DisconnectIsNormalTermination ==
    /\ [](\A c \in Conns :
             caught[c] = WebSocketDisconnect =>
                 pc[c] = "CLOSED" /\ Diagnostics(c) = <<>>)
    /\ [][\A c \in Conns :
             /\ DisconnectDetected(c) =>
                    /\ pc'[c] = "CLOSED"
                    /\ caught'[c] = WebSocketDisconnect
                    /\ sent'[c] = sent[c]
                    /\ requests'[c] = requests[c]
                    /\ uploaded_data_store' = uploaded_data_store
             /\ ClosedByDisconnect(c) =>
                    /\ pc'[c] = "CLOSED"
                    /\ sent'[c] = sent[c]
                    /\ requests'[c] = requests[c]
                    /\ received'[c] = received[c]
                    /\ chat_history'[c] = chat_history[c]
                    /\ TakesBy(c)' = TakesBy(c)]_vars

\* The client left in mid-stream: one fragment was delivered, the next one
\* could not be sent, and the connection closed without a diagnostic.
C11_Witness ==
    \E c \in Conns :
        /\ ClosedByDisconnect(c)
        /\ Len(TurnSent(c)) = 1
        /\ Len(Fragments(emitted[c])) = 2
        /\ Diagnostics(c) = <<>>

\* ---------------------------------------------------------------------------
\* C12: a connection attempt whose session_id query parameter is missing or
\* empty is refused: it is never accepted, gets no conversation, receives no
\* message, sends nothing, takes nothing from the store and makes no upstream
\* request, and the refusal itself leaves the store as it was.
NoSessionId(q) == q = PyNone \/ q = PyStr("")

C12_NoSessionIdRefused ==
    /\ [](\A c \in Conns :
             (pc[c] # "CONNECTING" /\ NoSessionId(session_id[c])) =>
                 /\ pc[c] = "REFUSED"
                 /\ chat_history[c] = <<>>
                 /\ received[c] = <<>>
                 /\ sent[c] = <<>>
                 /\ requests[c] = <<>>
                 /\ TakesBy(c) = <<>>)
    /\ [][\A c \in Conns :
             (pc[c] = "CONNECTING" /\ pc'[c] # "CONNECTING"
                  /\ NoSessionId(session_id'[c])) =>
                 /\ pc'[c] = "REFUSED"
                 /\ uploaded_data_store' = uploaded_data_store
                 /\ store_log' = store_log]_vars

\* A connection with an empty session id was refused while a payload was
\* pending and the other connection was served.
C12_Witness ==
    \E c, d \in Conns :
        /\ pc[c] = "REFUSED"
        /\ session_id[c] = PyStr("")
        /\ uploaded_data_store # <<>>
        /\ requests[d] # <<>>

\* ---------------------------------------------------------------------------
\* The fixed text the upload handler puts around the extracted text.
PdfPreamble == "The user uploaded a PDF. The extracted text is as follows:\n---\n"
PdfTrailer == "\n---\n"
\* The part of a stored document payload between preamble and trailer.
EmbeddedText(payload) ==
    SubSeq(payload, Len(PdfPreamble) + 1, Len(payload) - Len(PdfTrailer))

\* The step is a document upload.
PdfUploadStep ==
    /\ Len(store_log') = Len(store_log) + 1
    /\ Last(store_log').op = "upload"
    /\ Last(store_log').content_type = "application/pdf"

\* The document whose bytes the entry e of the log records.
FileOf(e) ==
    CHOOSE f \in LongFiles :
        f.bytes = e.file_bytes /\ f.content_type = e.content_type
\* The whole text of the document uploaded in this step.
UploadedText == ConcatPages(FileOf(Last(store_log')).pdf.pages)
\* What the store holds for the upload's session id after this step.
StoredPayload == uploaded_data_store'[Last(store_log').session_id]

\* C13 as stated: when the document's text is longer than 15000 characters
\* the stored payload is exactly the first 15000 characters of that text.
C13_StoredPayloadIsPrefix ==
    [][(/\ PdfUploadStep
        /\ FileOf(Last(store_log')).pdf.ok
        /\ Len(UploadedText) > TextCap) =>
           StoredPayload = SubSeq(UploadedText, 1, TextCap)]_vars

\* C13: after a document upload the store holds, for the upload's session
\* id, the fixed preamble, the extracted text and the fixed trailer; the
\* extracted text is never longer than 15000 characters and is exactly the
\* first 15000 characters of a document whose text is longer.
C13_EmbeddedTextIsCappedPrefix ==
    [][PdfUploadStep =>
           /\ Last(store_log').session_id \in DOMAIN uploaded_data_store'
           /\ StoredPayload =
                  PdfPreamble \o EmbeddedText(StoredPayload) \o PdfTrailer
           /\ Len(EmbeddedText(StoredPayload)) <= TextCap
           /\ (/\ FileOf(Last(store_log')).pdf.ok
               /\ Len(UploadedText) > TextCap) =>
                  EmbeddedText(StoredPayload) =
                      SubSeq(UploadedText, 1, TextCap)
      ]_vars

\* A document of 20000 characters has just been uploaded and the payload
\* pending for its session id embeds 15000 characters.
C13_Witness ==
    /\ store_log # <<>>
    /\ Last(store_log).op = "upload"
    /\ FileOf(Last(store_log)) = FilePdfLong
    /\ Len(ConcatPages(FilePdfLong.pdf.pages)) = 20000
    /\ Last(store_log).session_id \in DOMAIN uploaded_data_store
    /\ Len(EmbeddedText(uploaded_data_store[Last(store_log).session_id]))
           = TextCap

\* ---------------------------------------------------------------------------
\* The text a frame carries: the text field of a JSON object (empty when
\* the field is missing), the frame itself when it is not JSON.
TextOf(raw) ==
    IF IsJsonObject(raw)
    THEN DictGet(json_loads(raw).value.v, "text", PyStr(""))
    ELSE PyStr(raw)

\* The payload the step took from the store; None when it took none or
\* found none.
ConsumedPayload ==
    IF Len(store_log') = Len(store_log) + 1 /\ Last(store_log').op = "pop"
    THEN Last(store_log').value
    ELSE PyNone

IsImagePayload(p) == p # PyNone /\ StartsWith(p.v, "data:image/")
IsTextPayload(p) == p # PyNone /\ StartsWith(p.v, PdfPreamble)
Separator == "\n\nUser prompt: "

\* The step appended a user entry to connection c's conversation.
UserEntryStep(c) ==
    /\ ReceiveStep(c)
    /\ Len(chat_history'[c]) = Len(chat_history[c]) + 1

\* C14: the user entry appended for a turn is, with an image payload, a text
\* part (the user's text, or the default instruction when that is empty)
\* followed by an image part carrying the data URI; with a document payload,
\* one text part of payload, separator and user's text; with no payload and
\* non-empty text, one text part holding the text verbatim.
C14_UserEntryShape ==
    [][\A c \in Conns :
           UserEntryStep(c) =>
               LET text    == TextOf(Last(received'[c]))
                   payload == ConsumedPayload
                   entry   == Last(chat_history'[c])
               IN /\ entry.role = "user"
                  /\ IsImagePayload(payload) =>
                         entry.content =
                             PyList(<< [type |-> "text",
                                        text |-> IF text \in {PyStr(""), PyNone}
                                                 THEN PyStr(DefaultImagePrompt)
                                                 ELSE text],
                                       [type |-> "image_url",
                                        image_url |-> [url |-> payload.v]] >>)
                  /\ IsTextPayload(payload) =>
                         entry.content =
                             PyList(<< [type |-> "text",
                                        text |-> PyStr(payload.v \o Separator
                                                           \o text.v)] >>)
                  /\ payload = PyNone =>
                         /\ text \notin {PyStr(""), PyNone}
                         /\ entry.content =
                                PyList(<< [type |-> "text", text |-> text] >>)
                  /\ IsImagePayload(payload) \/ IsTextPayload(payload)
                         \/ payload = PyNone
      ]_vars

\* One conversation holds an image turn sent without text, which carries the
\* default instruction, and a document turn sent with text.
C14_Witness ==
    \E c \in Conns :
        \E i, j \in 1..Len(chat_history[c]) :
            /\ chat_history[c][i].role = "user"
            /\ chat_history[c][i].content =
                   PyList(<< [type |-> "text",
                              text |-> PyStr(DefaultImagePrompt)],
                             [type |-> "image_url",
                              image_url |->
                                  [url |-> image_to_base64(FilePng.bytes,
                                                "image/png")]] >>)
            /\ chat_history[c][j].role = "user"
            /\ Len(chat_history[c][j].content.v) = 1
            /\ chat_history[c][j].content.v[1].text =
                   PyStr(PdfPreamble \o "Hb 13.5\nWBC 5.1\n" \o PdfTrailer
                             \o Separator \o "What is Hb?")

\* ---------------------------------------------------------------------------
\* The step issued an upstream request on connection c.
RequestStep(c) == Len(requests'[c]) = Len(requests[c]) + 1

\* The entries of a conversation that carry an image part.
ImageEntries(history) ==
    SelectSeq(history,
              LAMBDA e : /\ e.content.t = "list"
                         /\ \E i \in 1..Len(e.content.v) :
                                e.content.v[i].type = "image_url")
\* The takes of connection c that returned a payload.
PayloadsTakenBy(c) == SelectSeq(TakesBy(c), LAMBDA e : e.value # PyNone)

\* C15: every upstream request carries the connection's whole conversation
\* in order, system message first and the turn's new user entry last; the
\* user entry is appended in the step that issues the request; requests only
\* grow; and a conversation holds only what its own connection received and
\* took, never an entry of another connection.
C15_RequestCarriesWholeConversation ==
    /\ [](\A c \in Conns :
             /\ \A k \in 1..Len(requests[c]) :
                    LET r == requests[c][k]
                    IN /\ r[1] = SystemMessage
                       /\ Last(r).role = "user"
                       /\ Len(r) <= Len(chat_history[c])
                       /\ r = SubSeq(chat_history[c], 1, Len(r))
                       /\ k > 1 => Len(requests[c][k - 1]) < Len(r)
             /\ Len(ImageEntries(chat_history[c])) = Len(PayloadsTakenBy(c))
             /\ Len(SelectSeq(chat_history[c], LAMBDA e : e.role = "user"))
                    <= Len(received[c]))
    /\ [][\A c \in Conns :
             RequestStep(c) =>
                 /\ Last(requests'[c]) = chat_history'[c]
                 /\ Len(chat_history'[c]) = Len(chat_history[c]) + 1
                 /\ SubSeq(chat_history'[c], 1, Len(chat_history[c]))
                        = chat_history[c]
                 /\ Last(chat_history'[c]).role = "user"
                 /\ \A d \in Conns \ {c} :
                        /\ chat_history'[d] = chat_history[d]
                        /\ requests'[d] = requests[d]]_vars

\* A second request of one connection carried system message, first user
\* entry, committed response and new user entry, while the other connection
\* of the same session was open with a conversation of its own.
C15_Witness ==
    \E c, d \in Conns :
        /\ c # d
        /\ Len(requests[c]) = 2
        /\ Len(requests[c][2]) = 4
        /\ requests[c][2][3].role = "assistant"
        /\ Len(ImageEntries(requests[c][2])) = 1
        /\ chat_history[d] = <<SystemMessage>>

\* ---------------------------------------------------------------------------
\* The step ended the stream of connection c's turn.
StreamEndStep(c) ==
    pc[c] = "STREAMING_RESPONSE" /\ pc'[c] = "AWAITING_MESSAGE"

\* The step appended an assistant entry to connection c's conversation.
AssistantAppended(c) ==
    /\ Len(chat_history'[c]) = Len(chat_history[c]) + 1
    /\ Last(chat_history'[c]).role = "assistant"

\* C16: an assistant entry is appended only by the end of a stream whose
\* accumulated text is not empty, and holds that text; a stream that ends
\* with empty accumulated text leaves the conversation one entry (the user
\* entry) longer than before the turn, so that the next user entry follows
\* the previous one directly; assistant entries are never empty and always
\* follow a user entry.
C16_AssistantOnlyWhenNonEmpty ==
    /\ [](\A c \in Conns :
             \A i \in 1..Len(chat_history[c]) :
                 chat_history[c][i].role = "assistant" =>
                     /\ chat_history[c][i].content # PyStr("")
                     /\ i > 1
                     /\ chat_history[c][i - 1].role = "user")
    /\ [][\A c \in Conns :
             /\ AssistantAppended(c) =>
                    /\ StreamEndStep(c)
                    /\ full_bot_response[c] # ""
                    /\ Last(chat_history'[c]).content
                           = PyStr(full_bot_response[c])
             /\ (StreamEndStep(c) /\ full_bot_response[c] = "") =>
                    /\ chat_history'[c] = chat_history[c]
                    /\ Len(chat_history'[c]) = turn_base[c] + 1
                    /\ Last(chat_history'[c]).role = "user"
             /\ (StreamEndStep(c) /\ full_bot_response[c] # "") =>
                    AssistantAppended(c)]_vars

\* A turn whose stream yielded a chunk without text ended with nothing
\* accumulated, and the next turn's user entry follows the previous one.
C16_Witness ==
    \E c \in Conns :
        /\ Len(chat_history[c]) = 3
        /\ chat_history[c][2].role = "user"
        /\ chat_history[c][3].role = "user"
        /\ Len(requests[c]) = 2
        /\ nchunks >= 1

\* ---------------------------------------------------------------------------
\* Connection c has a turn under way: its request is pending or its
\* response is streaming.
InTurn(c) == pc[c] \in {"REQUESTING", "STREAMING_RESPONSE", "SENDING"}

\* C17: a connection's loop is sequential.  While a turn is under way the
\* connection receives no frame, takes nothing from the store, appends no
\* user entry and issues no request; the conversation changes during a turn
\* only by the commit that ends it; and a request is issued only from
\* AWAITING_MESSAGE, when every earlier request's stream has ended, so that
\* at most one request of a connection is in flight.
C17_LoopIsSequential ==
    [][\A c \in Conns :
           /\ InTurn(c) =>
                  /\ received'[c] = received[c]
                  /\ Len(inbox'[c]) >= Len(inbox[c])
                  /\ TakesBy(c)' = TakesBy(c)
                  /\ requests'[c] = requests[c]
                  /\ chat_history'[c] # chat_history[c] =>
                         StreamEndStep(c) /\ AssistantAppended(c)
           /\ RequestStep(c) =>
                  /\ pc[c] = "AWAITING_MESSAGE"
                  /\ pc'[c] = "REQUESTING"
                  /\ requests[c] # <<>> =>
                         \/ chat_history[c] = Last(requests[c])
                         \/ /\ Len(chat_history[c])
                                   = Len(Last(requests[c])) + 1
                            /\ Last(chat_history[c]).role = "assistant"
      ]_vars

\* While a response is streaming, with one fragment already relayed, the
\* client's next frame and a new upload of the session are waiting.
C17_Witness ==
    \E c \in Conns :
        /\ pc[c] = "STREAMING_RESPONSE"
        /\ full_bot_response[c] # ""
        /\ inbox[c] # <<>>
        /\ session_id[c].v \in DOMAIN uploaded_data_store

\* ---------------------------------------------------------------------------
\* The step made a store operation: an upload request or a take.
StoreOpStep == Len(store_log') = Len(store_log) + 1
\* The store holds the same for session id sid before and after the step.
SameEntry(sid) ==
    /\ (sid \in DOMAIN uploaded_data_store')
           = (sid \in DOMAIN uploaded_data_store)
    /\ sid \in DOMAIN uploaded_data_store =>
           uploaded_data_store'[sid] = uploaded_data_store[sid]

\* C18: an upload or a take made under one session id leaves the entry of
\* every other session id as it was, and a step that is neither leaves the
\* store alone; every take is made under the session id of its connection
\* and returns nothing or the payload of the latest upload under that same
\* session id, never a payload uploaded under another one.
C18_SessionsDoNotInterfere ==
    /\ [](\A i \in 1..Len(store_log) :
             LET e == store_log[i]
             IN e.op = "pop" =>
                    /\ PyStr(e.session_id) = session_id[e.conn]
                    /\ e.value # PyNone =>
                           /\ \E j \in 1..(i - 1) :
                                  /\ IsPut(store_log[j], e.session_id)
                                  /\ Adjacent(j, i, e.session_id)
                                  /\ store_log[j].value = e.value
                           /\ \A j \in 1..Len(store_log) :
                                  (/\ store_log[j].op = "upload"
                                   /\ store_log[j].session_id # e.session_id)
                                      => store_log[j].value # e.value)
    /\ [][IF StoreOpStep
          THEN \A sid \in UploadSessionIds \ {Last(store_log').session_id} :
                   SameEntry(sid)
          ELSE uploaded_data_store' = uploaded_data_store]_vars

\* With payloads pending under both session ids, the connection of s1 took
\* its image and the document of s2 is still in the store.
C18_Witness ==
    /\ store_log # <<>>
    /\ Last(store_log).op = "pop"
    /\ Last(store_log).session_id = "s1"
    /\ Last(store_log).value =
           PyStr(image_to_base64(FilePng.bytes, FilePng.content_type))
    /\ "s2" \in DOMAIN uploaded_data_store
    /\ StartsWith(uploaded_data_store["s2"], PdfPreamble)
    /\ pc["c2"] = "AWAITING_MESSAGE"

\* ---------------------------------------------------------------------------
\* The session id a frame names in its session_id field; None when the
\* frame is not a JSON object or has no such field.
NamedSession(raw) ==
    IF IsJsonObject(raw)
    THEN DictGet(json_loads(raw).value.v, "session_id", PyNone)
    ELSE PyNone

\* The frame that differs from raw only in the session id it names.
Twin(raw) == IF raw = RawUiText THEN RawUiForged ELSE RawUiText

\* C19: a take is made under the session id fixed when the connection was
\* opened, whatever session id the frame names: the entry of a session the
\* frame names but the connection was not opened under stays as it was and
\* its payload does not reach the conversation; and the pass of the loop
\* leaves the store, the conversation and the request exactly as the frame
\* that differs only in the session id it names would have left them.
C19_MessageSessionIdIgnored ==
    /\ [](\A i \in 1..Len(store_log) :
             store_log[i].op = "pop" =>
                 PyStr(store_log[i].session_id) = session_id[store_log[i].conn])
    /\ [][\A c \in Conns :
             ReceiveStep(c) =>
                 LET raw   == Last(received'[c])
                     named == NamedSession(raw)
                     own   == session_id[c].v
                     twin  == ParseAndTake(Twin(raw), uploaded_data_store, own)
                     entry == BuildMessageContent(twin.user_message,
                                                  twin.file_content_data)
                 IN /\ (named # PyNone /\ named.v # own) =>
                           /\ SameEntry(named.v)
                           /\ named.v \in DOMAIN uploaded_data_store =>
                                  ConsumedPayload #
                                      PyStr(uploaded_data_store[named.v])
                    /\ \A sid \in UploadSessionIds \ {own} : SameEntry(sid)
                    /\ uploaded_data_store' = twin.store
                    /\ ConsumedPayload = twin.file_content_data
                    /\ chat_history'[c] =
                           AppendUser(chat_history[c], entry.message_content)
                    /\ requests'[c] = Append(requests[c], chat_history'[c])
        ]_vars

\* The connection of s1 processed a frame naming s2 while a document was
\* pending under s2: the take returned nothing and the document is still
\* in the store.
C19_Witness ==
    \E c \in Conns :
        /\ session_id[c] = PyStr("s1")
        /\ received[c] # <<>>
        /\ Last(received[c]) = RawUiForged
        /\ pc[c] = "REQUESTING"
        /\ Last(store_log).op = "pop"
        /\ Last(store_log).value = PyNone
        /\ "s2" \in DOMAIN uploaded_data_store
        /\ StartsWith(uploaded_data_store["s2"], PdfPreamble)

\* ---------------------------------------------------------------------------
\* The step is an upload request that stored a payload.
PutStep ==
    /\ StoreOpStep
    /\ Last(store_log').op = "upload"
    /\ Last(store_log').status = 200
\* The step is a take.
TakeStep == StoreOpStep /\ Last(store_log').op = "pop"

\* C20: a payload is handed to at most one turn, also when two connections
\* share a session id: between two takes that returned a payload lies the
\* upload of the second one, and a take returns the entry and removes it in
\* the same step.  An upload that completes while a turn is under way
\* changes no conversation and no request; its payload is pending after the
\* step, and a pending entry leaves the store only through a take made while
\* processing a frame of a connection of its session.
C20_PayloadUsedAtMostOnce ==
    /\ [](\A i, j \in 1..Len(store_log) :
             (/\ i < j
              /\ store_log[i].op = "pop" /\ store_log[i].value # PyNone
              /\ store_log[j].op = "pop" /\ store_log[j].value # PyNone
              /\ store_log[i].session_id = store_log[j].session_id) =>
                 \E k \in (i + 1)..(j - 1) :
                     /\ IsPut(store_log[k], store_log[j].session_id)
                     /\ Adjacent(k, j, store_log[j].session_id))
    /\ [][/\ TakeStep =>
                 LET sid == Last(store_log').session_id
                 IN /\ sid \notin DOMAIN uploaded_data_store'
                    /\ Last(store_log').value =
                           DictPopValue(uploaded_data_store, sid)
          /\ PutStep =>
                 /\ chat_history' = chat_history
                 /\ requests' = requests
                 /\ pc' = pc
                 /\ Last(store_log').session_id \in DOMAIN uploaded_data_store'
          /\ \A sid \in DOMAIN uploaded_data_store :
                 sid \notin DOMAIN uploaded_data_store' =>
                     /\ TakeStep
                     /\ \E c \in Conns :
                            /\ ReceiveStep(c)
                            /\ ~InTurn(c)
                            /\ session_id[c] = PyStr(sid)
                            /\ Last(store_log').conn = c
       ]_vars

\* Two connections share a session id.  The first took an upload and its
\* turn is still under way; a second upload completed meanwhile and went to
\* the next frame of the session, on the other connection, leaving the turn
\* under way with the one image it had.
C20_Witness ==
    \E c, d \in Conns :
        /\ c # d
        /\ session_id[c] = session_id[d]
        /\ Len(store_log) = 4
        /\ IsPut(store_log[1], session_id[c].v)
        /\ store_log[2].op = "pop" /\ store_log[2].conn = c
        /\ store_log[2].value = store_log[1].value
        /\ IsPut(store_log[3], session_id[c].v)
        /\ store_log[4].op = "pop" /\ store_log[4].conn = d
        /\ store_log[4].value = store_log[3].value
        /\ InTurn(c)
        /\ Len(requests[c]) = 1
        /\ Len(ImageEntries(chat_history[c])) = 1
        /\ Len(ImageEntries(chat_history[d])) = 1
        /\ uploaded_data_store = <<>>

====
